---- MODULE Spec2Model ----
(***************************************************************************)
(* Model of Mutation::GasSurfaceInteraction::WallState                     *)
(* (src/gsi/WallState.cpp): the wall-state container, its variable-set     *)
(* set/get protocol, the surface-site initialisation and the number        *)
(* density assembly.                                                       *)
(*                                                                         *)
(* A C++ double is modelled as a binary floating-point number with a       *)
(* Prec-bit significand, an unbounded exponent and round-to-nearest-even:  *)
(* the pair <<m, e>> stands for m * 2^e, with m = 0 /\ e = 0 or            *)
(* 2^(Prec-1) <= |m| < 2^Prec.  Sequences are 1-based where the code is    *)
(* 0-based.                                                                *)
(***************************************************************************)
EXTENDS Integers, Sequences, FiniteSets, TLC

\* ------------------------------------------------------------------ bounds
Prec == 4        \* significand bits of the modelled double
MaxNs == 2       \* largest number of gas species
MaxNT == 2       \* largest number of energy equations
MaxCat == 2      \* largest number of site categories
MaxM == 3        \* largest number of species in one site category

\* ------------------------------------------------- double arithmetic
RECURSIVE Pow2(_)
Pow2(n) == IF n <= 0 THEN 1 ELSE 2 * Pow2(n - 1)

Abs(x) == IF x < 0 THEN -x ELSE x

\* least k >= 1 with n \div 2^k < 2^Prec
RECURSIVE ShiftNeeded(_, _)
ShiftNeeded(n, k) == IF n \div Pow2(k) < Pow2(Prec) THEN k ELSE ShiftNeeded(n, k + 1)

\* n * 2^e, n > 0, rounded to Prec significant bits, ties to even
RECURSIVE RoundPos(_, _)
RoundPos(n, e) ==
    IF n < Pow2(Prec - 1) THEN RoundPos(2 * n, e - 1)
    ELSE IF n < Pow2(Prec) THEN <<n, e>>
    ELSE LET k == ShiftNeeded(n, 1)
             q == n \div Pow2(k)
             r == n % Pow2(k)
             half == Pow2(k - 1)
             q1 == IF r > half \/ (r = half /\ q % 2 = 1) THEN q + 1 ELSE q
         IN  IF q1 = Pow2(Prec) THEN <<Pow2(Prec - 1), e + k + 1>> ELSE <<q1, e + k>>

Round(n, e) ==
    IF n = 0 THEN <<0, 0>>
    ELSE IF n > 0 THEN RoundPos(n, e)
    ELSE LET r == RoundPos(-n, e) IN <<-r[1], r[2]>>

\* int -> double conversion
FromInt(n) == Round(n, 0)

\* double * double
MulF(a, b) == Round(a[1] * b[1], a[2] + b[2])

\* double / double, b # 0: quotient with guard bits and a sticky bit, rounded
DivF(a, b) ==
    IF a[1] = 0 THEN <<0, 0>>
    ELSE LET n == Abs(a[1]) * Pow2(Prec + 2)
             q == n \div Abs(b[1])
             r == n % Abs(b[1])
             q2 == 2 * q + (IF r # 0 THEN 1 ELSE 0)
             s == IF (a[1] < 0) = (b[1] < 0) THEN 1 ELSE -1
         IN  Round(s * q2, a[2] - b[2] - (Prec + 3))

\* Avogadro's number 6.022e23, about 510 * 2^70
NAMant == 510
NAExp == 70
NA == Round(NAMant, NAExp)

\* ------------------------------------------------------------- inputs
Vals == {FromInt(0), FromInt(1)}                 \* values a caller passes, or memory holds
Vec(n) == [1..n -> Vals]
BufFill == FromInt(7)                            \* prior content of caller output buffers
StateVars == {0, 1, 2}                           \* variable-set ids a caller passes
FracVals == {Round(1, -2), Round(1, -1), Round(3, -2), FromInt(1)}
SiteTotals == {FromInt(9), FromInt(10)}

RECURSIVE SumInts(_, _)
SumInts(f, n) == IF n = 0 THEN 0 ELSE f[n] + SumInts(f, n - 1)

\* Thermodynamics: molar mass of gas species i
Mw(i) == FromInt(2 * i + 1)

\* Thermodynamics::convert<RHO_TO_CONC>: concentration = density / molar mass
convertRhoToConc(rhoi, n) == [i \in 1..n |-> DivF(rhoi[i], Mw(i))]

\* SurfaceProperties: a site model; nWallSpecies() is the number of species
\* over all site categories
SiteModels(maxCat, maxM, totals, fracs) ==
    UNION {[nSiteCategories : {c}, nTotalSites : totals,
            fracSite : [1..c -> fracs], nSpeciesinSite : [1..c -> 1..maxM]]
           : c \in 1..maxCat}

nWallSpecies(sp) == SumInts(sp.nSpeciesinSite, sp.nSiteCategories)

\* -------------------------------------------------------------- state
VARIABLES
    pc,            \* "new" before the constructor has run, "ready" after
    thermo,        \* the Thermodynamics collaborator: nSpecies, nEnergyEqns
    surf_props,    \* the SurfaceProperties collaborator: the site model
    wall,          \* the WallState object, one field per data member
    call,          \* the last call made on the object, its arguments and results;
                   \* for a getWallState that comes right after a setWallState
                   \* that returned normally, also that call's arguments
    setCompleted   \* history: some setWallState call has returned normally

vars == <<pc, thermo, surf_props, wall, call, setCompleted>>

NoWall == [m_ns |-> 0, m_nT |-> 0, m_ns_surf |-> 0, m_set_state_rhoi_T |-> 1,
           mv_rhoi |-> <<>>, mv_T |-> <<>>, m_p |-> <<0, 0>>,
           m_is_wall_state_set |-> FALSE, mv_surf_props_state |-> <<>>]

NoCall == [op |-> "none", state_var |-> 1, p_mass |-> <<>>, p_energy |-> <<>>,
           err |-> "none", p_rhoi |-> <<>>, p_rhoie |-> <<>>, v_wall_state |-> <<>>,
           after |-> <<"other">>]

\* ------------------------------------------------- initializeSurfState
\* mutant: the slot position is not advanced
RECURSIVE FillSite_NoAdvance(_, _, _, _)
FillSite_NoAdvance(state, pos_in_surf_props, n_sites_dens, n_left) ==
    IF n_left = 0 THEN <<state, pos_in_surf_props>>
    ELSE FillSite_NoAdvance([state EXCEPT ![pos_in_surf_props] = n_sites_dens],
                            pos_in_surf_props, n_sites_dens, n_left - 1)

\* inner loop: n_sp_in_site slots from pos_in_surf_props on get n_sites_dens
RECURSIVE FillSite(_, _, _, _)
FillSite(state, pos_in_surf_props, n_sites_dens, n_left) ==
    IF n_left = 0 THEN <<state, pos_in_surf_props>>
    ELSE FillSite([state EXCEPT ![pos_in_surf_props] = n_sites_dens],
                  pos_in_surf_props + 1, n_sites_dens, n_left - 1)

\* mutant: the site fraction is left out
SitesDens_NoFrac(sp, i_sites) ==
    DivF(sp.nTotalSites, FromInt(sp.nSpeciesinSite[i_sites]))

\* n_sites_dens = n_total_sites * n_frac_site / n_sp_in_site
SitesDens(sp, i_sites) ==
    DivF(MulF(sp.nTotalSites, sp.fracSite[i_sites]), FromInt(sp.nSpeciesinSite[i_sites]))

\* outer loop over the site categories
RECURSIVE SiteLoop(_, _, _, _)
SiteLoop(sp, state, pos_in_surf_props, i_sites) ==
    IF i_sites > sp.nSiteCategories THEN state
    ELSE LET r == FillSite(state, pos_in_surf_props, SitesDens(sp, i_sites),
                           sp.nSpeciesinSite[i_sites])
         IN  SiteLoop(sp, r[1], r[2], i_sites + 1)

initializeSurfState(w, sp) ==
    [w EXCEPT !.mv_surf_props_state = SiteLoop(sp, w.mv_surf_props_state, 1, 1)]

\* --------------------------------------------------------- constructor
\* Eigen vectors constructed with a size, and the double m_p, are not
\* initialised: their first content is whatever the memory holds (u_*).
WallStateCtor(th, sp, u_rhoi, u_T, u_p, u_surf) ==
    LET ns_surf == nWallSpecies(sp)
    IN  initializeSurfState(
            [m_ns |-> th.nSpecies, m_nT |-> th.nEnergyEqns, m_ns_surf |-> ns_surf,
             m_set_state_rhoi_T |-> 1,
             mv_rhoi |-> u_rhoi, mv_T |-> u_T, m_p |-> u_p,
             m_is_wall_state_set |-> FALSE,
             mv_surf_props_state |-> [i \in 1..ns_surf |-> u_surf]],
            sp)

\* ------------------------------------------------------------- setters
setWallRhoi(w, p_rhoi) == [w EXCEPT !.mv_rhoi = [i \in 1..w.m_ns |-> p_rhoi[i]]]

setWallT(w, p_T) == [w EXCEPT !.mv_T = [i \in 1..w.m_nT |-> p_T[i]]]

setWallP(w, p) == [w EXCEPT !.m_p = p]

\* mutant: the temperatures are copied before the id is looked at
setWallState_TFirst(w, p_mass, p_energy, state_var) ==
    CASE state_var = 0 ->
            [wall |-> [setWallT(setWallP(w, p_mass[1]), p_energy)
                          EXCEPT !.m_is_wall_state_set = TRUE],
             err |-> "none"]
      [] state_var = 1 ->
            [wall |-> [setWallT(setWallRhoi(w, p_mass), p_energy)
                          EXCEPT !.m_is_wall_state_set = TRUE],
             err |-> "none"]
      [] OTHER -> [wall |-> setWallT(w, p_energy), err |-> "variable set"]

\* mutant: only variable-set 1 marks the state as set
setWallState_FlagCase1Only(w, p_mass, p_energy, state_var) ==
    CASE state_var = 0 ->
            [wall |-> setWallT(setWallP(w, p_mass[1]), p_energy), err |-> "none"]
      [] state_var = 1 ->
            [wall |-> [setWallT(setWallRhoi(w, p_mass), p_energy)
                          EXCEPT !.m_is_wall_state_set = TRUE],
             err |-> "none"]
      [] OTHER -> [wall |-> w, err |-> "variable set"]

\* mutant: variable-set 0 does not copy the temperatures
setWallState_PNoT(w, p_mass, p_energy, state_var) ==
    CASE state_var = 0 ->
            [wall |-> [setWallP(w, p_mass[1]) EXCEPT !.m_is_wall_state_set = TRUE],
             err |-> "none"]
      [] state_var = 1 ->
            [wall |-> [setWallT(setWallRhoi(w, p_mass), p_energy)
                          EXCEPT !.m_is_wall_state_set = TRUE],
             err |-> "none"]
      [] OTHER -> [wall |-> w, err |-> "variable set"]

\* the object after the call and the error thrown ("none": normal return)
setWallState(w, p_mass, p_energy, state_var) ==
    CASE state_var = 0 ->
            [wall |-> [setWallT(setWallP(w, p_mass[1]), p_energy)
                          EXCEPT !.m_is_wall_state_set = TRUE],
             err |-> "none"]
      [] state_var = 1 ->
            [wall |-> [setWallT(setWallRhoi(w, p_mass), p_energy)
                          EXCEPT !.m_is_wall_state_set = TRUE],
             err |-> "none"]
      [] OTHER -> [wall |-> w, err |-> "variable set"]

\* ------------------------------------------------------------- getters
\* mutant: the density loop stops one species early
getWallState_OffByOne(w, p_rhoi, p_rhoie, state_var) ==
    CASE state_var = 1 ->
            [wall |-> w,
             p_rhoi |-> [i \in DOMAIN p_rhoi |-> IF i <= w.m_ns - 1 THEN w.mv_rhoi[i] ELSE p_rhoi[i]],
             p_rhoie |-> [i \in DOMAIN p_rhoie |-> IF i <= w.m_nT THEN w.mv_T[i] ELSE p_rhoie[i]],
             err |-> "none"]
      [] OTHER -> [wall |-> w, p_rhoi |-> p_rhoi, p_rhoie |-> p_rhoie, err |-> "variable get"]

\* mutant: variable-set 0 is served like variable-set 1
getWallState_Case0(w, p_rhoi, p_rhoie, state_var) ==
    CASE state_var \in {0, 1} ->
            [wall |-> w,
             p_rhoi |-> [i \in DOMAIN p_rhoi |-> IF i <= w.m_ns THEN w.mv_rhoi[i] ELSE p_rhoi[i]],
             p_rhoie |-> [i \in DOMAIN p_rhoie |-> IF i <= w.m_nT THEN w.mv_T[i] ELSE p_rhoie[i]],
             err |-> "none"]
      [] OTHER -> [wall |-> w, p_rhoi |-> p_rhoi, p_rhoie |-> p_rhoie, err |-> "variable get"]

getWallState(w, p_rhoi, p_rhoie, state_var) ==
    CASE state_var = 1 ->
            [wall |-> w,
             p_rhoi |-> [i \in DOMAIN p_rhoi |-> IF i <= w.m_ns THEN w.mv_rhoi[i] ELSE p_rhoi[i]],
             p_rhoie |-> [i \in DOMAIN p_rhoie |-> IF i <= w.m_nT THEN w.mv_T[i] ELSE p_rhoie[i]],
             err |-> "none"]
      [] OTHER -> [wall |-> w, p_rhoi |-> p_rhoi, p_rhoie |-> p_rhoie, err |-> "variable get"]

\* mutant: the whole vector is scaled by NA, after the surface part is copied
getNdStateGasSurf_ScaleAll(w, v_wall_state) ==
    LET n == Len(v_wall_state)
        conc == convertRhoToConc(w.mv_rhoi, w.m_ns)
        v1 == [i \in 1..n |-> IF i <= w.m_ns THEN conc[i] ELSE v_wall_state[i]]
        v2 == [i \in 1..n |-> IF i > n - w.m_ns_surf
                                THEN w.mv_surf_props_state[i - (n - w.m_ns_surf)]
                                ELSE v1[i]]
        v3 == [i \in 1..n |-> MulF(v2[i], NA)]
    IN  [wall |-> w, v_wall_state |-> v3]

\* mutant: the last assignment goes from the caller's vector to the object
getNdStateGasSurf_Reversed(w, v_wall_state) ==
    LET n == Len(v_wall_state)
        conc == convertRhoToConc(w.mv_rhoi, w.m_ns)
        v1 == [i \in 1..n |-> IF i <= w.m_ns THEN conc[i] ELSE v_wall_state[i]]
        v2 == [i \in 1..n |-> IF i <= w.m_ns THEN MulF(v1[i], NA) ELSE v1[i]]
    IN  [wall |-> [w EXCEPT !.mv_surf_props_state =
                       [j \in 1..w.m_ns_surf |-> v2[n - w.m_ns_surf + j]]],
         v_wall_state |-> v2]

\* v_wall_state has size m_ns + m_ns_surf (asserted by the code)
getNdStateGasSurf(w, v_wall_state) ==
    LET n == Len(v_wall_state)
        conc == convertRhoToConc(w.mv_rhoi, w.m_ns)
        v1 == [i \in 1..n |-> IF i <= w.m_ns THEN conc[i] ELSE v_wall_state[i]]
        v2 == [i \in 1..n |-> IF i <= w.m_ns THEN MulF(v1[i], NA) ELSE v1[i]]
        v3 == [i \in 1..n |-> IF i > n - w.m_ns_surf
                                THEN w.mv_surf_props_state[i - (n - w.m_ns_surf)]
                                ELSE v2[i]]
    IN  [wall |-> w, v_wall_state |-> v3]

\* ------------------------------------------------------------- actions
Construct ==
    /\ pc = "new"
    /\ \E u_rhoi \in Vec(thermo.nSpecies), u_T \in Vec(thermo.nEnergyEqns),
          u_p \in Vals, u_surf \in Vals :
          wall' = WallStateCtor(thermo, surf_props, u_rhoi, u_T, u_p, u_surf)
    /\ pc' = "ready"
    /\ UNCHANGED <<thermo, surf_props, call, setCompleted>>

\* p_mass holds one pressure for variable-set 0 and m_ns densities otherwise
MassLen(state_var) == IF state_var = 0 THEN 1 ELSE wall.m_ns

CallSetWallState ==
    /\ pc = "ready"
    /\ \E state_var \in StateVars :
       \E p_mass \in Vec(MassLen(state_var)), p_energy \in Vec(wall.m_nT) :
          LET r == setWallState(wall, p_mass, p_energy, state_var)
          IN  /\ wall' = r.wall
              /\ call' = [NoCall EXCEPT !.op = "setWallState", !.state_var = state_var,
                                        !.p_mass = p_mass, !.p_energy = p_energy,
                                        !.err = r.err]
              /\ setCompleted' = (setCompleted \/ r.err = "none")
    /\ UNCHANGED <<pc, thermo, surf_props>>

CallGetWallState ==
    /\ pc = "ready"
    /\ \E state_var \in StateVars :
          LET r == getWallState(wall, [i \in 1..wall.m_ns |-> BufFill],
                                [i \in 1..wall.m_nT |-> BufFill], state_var)
          IN  /\ wall' = r.wall
              /\ call' = [NoCall EXCEPT !.op = "getWallState", !.state_var = state_var,
                                        !.err = r.err, !.p_rhoi = r.p_rhoi,
                                        !.p_rhoie = r.p_rhoie,
                                        !.after =
                                            IF call.op = "setWallState" /\ call.err = "none"
                                            THEN <<call.op, call.state_var,
                                                   call.p_mass, call.p_energy>>
                                            ELSE <<"other">>]
    /\ UNCHANGED <<pc, thermo, surf_props, setCompleted>>

CallGetNdStateGasSurf ==
    /\ pc = "ready"
    /\ LET r == getNdStateGasSurf(wall, [i \in 1..(wall.m_ns + wall.m_ns_surf) |-> BufFill])
       IN  /\ wall' = r.wall
           /\ call' = [NoCall EXCEPT !.op = "getNdStateGasSurf",
                                     !.v_wall_state = r.v_wall_state]
    /\ UNCHANGED <<pc, thermo, surf_props, setCompleted>>

\* ------------------------------------------------------ specifications
Thermos == [nSpecies : 1..MaxNs, nEnergyEqns : 1..MaxNT]

\* the scenario of the documentation (one category of three species) and a
\* model of two categories of unequal size
MainSiteModels ==
    {[nSiteCategories |-> 1, nTotalSites |-> FromInt(9),
      fracSite |-> <<FromInt(1)>>, nSpeciesinSite |-> <<3>>],
     [nSiteCategories |-> 2, nTotalSites |-> FromInt(10),
      fracSite |-> <<Round(1, -2), Round(3, -2)>>, nSpeciesinSite |-> <<1, 2>>]}

\* the API protocol over two site models
Init ==
    /\ pc = "new"
    /\ thermo \in Thermos
    /\ surf_props \in MainSiteModels
    /\ wall = NoWall
    /\ call = NoCall
    /\ setCompleted = FALSE

Next == Construct \/ CallSetWallState \/ CallGetWallState \/ CallGetNdStateGasSurf

Spec == Init /\ [][Next]_vars

\* construction over all site models, one gas species and one temperature
InitSite ==
    /\ pc = "new"
    /\ thermo = [nSpecies |-> 1, nEnergyEqns |-> 1]
    /\ surf_props \in SiteModels(MaxCat, MaxM, SiteTotals, FracVals)
    /\ wall = NoWall
    /\ call = NoCall
    /\ setCompleted = FALSE

NextSite == Construct \/ CallGetNdStateGasSurf

SpecSite == InitSite /\ [][NextSite]_vars

TypeOK ==
    /\ pc \in {"new", "ready"}
    /\ pc = "ready" => /\ Len(wall.mv_rhoi) = wall.m_ns
                       /\ Len(wall.mv_T) = wall.m_nT

\* ============================================================== claims
IsSet(id) == call.op = "setWallState" /\ call.state_var = id
IsGet(id) == call.op = "getWallState" /\ call.state_var = id

\* C1: a getWallState with id 1 that comes right after setWallState(densities,
\* temperatures, 1) returns normally and hands back exactly the densities and
\* temperatures that were set, index for index.
C1_RoundTrip ==
    (IsGet(1) /\ call.after[1] = "setWallState" /\ call.after[2] = 1)
        => /\ call.err = "none"
           /\ call.p_rhoi = call.after[3]
           /\ call.p_rhoie = call.after[4]

C1_Witness ==
    /\ IsGet(1) /\ call.after[1] = "setWallState" /\ call.after[2] = 1
    /\ wall.m_ns = 2
    /\ call.after[3] = <<FromInt(1), FromInt(0)>>
    /\ call.p_rhoi = <<FromInt(1), FromInt(0)>>
    /\ call.p_rhoie = call.after[4]

\* C2: a setWallState with an id outside {0,1} throws the "variable set" error
\* and leaves every field of the object as it was before the call.
C2_SetRejects ==
    [][(call'.op = "setWallState" /\ call'.state_var \notin {0, 1})
          => (call'.err = "variable set" /\ wall' = wall)]_vars

C2_Witness ==
    /\ IsSet(2) /\ call.err = "variable set"
    /\ wall.m_is_wall_state_set = FALSE
    /\ wall.m_nT = 2
    /\ call.p_energy # wall.mv_T

\* C3: a getWallState with an id other than 1 (id 0 included) throws the
\* "variable get" error, writes no element of either output buffer and changes
\* no field; with id 1 it returns normally and changes no field.
C3_GetRejects ==
    [][(call'.op = "getWallState")
          => /\ wall' = wall
             /\ (call'.state_var # 1)
                   => /\ call'.err = "variable get"
                      /\ \A i \in DOMAIN call'.p_rhoi : call'.p_rhoi[i] = BufFill
                      /\ \A i \in DOMAIN call'.p_rhoie : call'.p_rhoie[i] = BufFill
             /\ (call'.state_var = 1) => call'.err = "none"]_vars

C3_Witness ==
    /\ IsGet(0) /\ call.err = "variable get"
    /\ setCompleted
    /\ Len(call.p_rhoi) = 2 /\ call.p_rhoi[2] = BufFill
    /\ Len(call.p_rhoie) = 2 /\ call.p_rhoie[1] = BufFill

\* C4: getNdStateGasSurf writes, for each gas species i, the concentration of
\* the current species densities times Avogadro's number into slot i, and the
\* surface site densities unchanged into the slots after the gas species; it
\* changes no field of the object.
C4_NdAssembly ==
    /\ [](call.op = "getNdStateGasSurf"
             => /\ Len(call.v_wall_state) = wall.m_ns + wall.m_ns_surf
                /\ \A i \in 1..wall.m_ns :
                      call.v_wall_state[i] =
                          MulF(convertRhoToConc(wall.mv_rhoi, wall.m_ns)[i], NA)
                /\ \A j \in 1..wall.m_ns_surf :
                      call.v_wall_state[wall.m_ns + j] = wall.mv_surf_props_state[j])
    /\ [][call'.op = "getNdStateGasSurf" => wall' = wall]_vars

C4_Witness ==
    /\ call.op = "getNdStateGasSurf"
    /\ wall.m_ns = 2 /\ wall.m_ns_surf = 3
    /\ wall.mv_rhoi = <<FromInt(1), FromInt(1)>>
    /\ call.v_wall_state[1] # call.v_wall_state[2]
    /\ call.v_wall_state[3] # call.v_wall_state[4]
    /\ call.v_wall_state[5] = wall.mv_surf_props_state[3]

\* ------------------------------------------- exact values of doubles
Min(S) == CHOOSE x \in S : \A y \in S : x <= y

\* the exact value of the double x in units of 2^e0, e0 <= x[2]
Scaled(x, e0) == x[1] * Pow2(x[2] - e0)

\* the exact sum of the first n doubles of xs in units of 2^e0
RECURSIVE ScaledSum(_, _, _)
ScaledSum(xs, n, e0) == IF n = 0 THEN 0 ELSE Scaled(xs[n], e0) + ScaledSum(xs, n - 1, e0)

\* the exact (unrounded) products nTotalSites * fracSite[c]
TotalTimesFrac(sp) ==
    [c \in 1..sp.nSiteCategories |->
        <<sp.nTotalSites[1] * sp.fracSite[c][1], sp.nTotalSites[2] + sp.fracSite[c][2]>>]

\* a unit small enough for the site densities, the total and the products
SiteUnit ==
    Min({wall.mv_surf_props_state[i][2] : i \in 1..wall.m_ns_surf}
        \cup {TotalTimesFrac(surf_props)[c][2] : c \in 1..surf_props.nSiteCategories}
        \cup {surf_props.nTotalSites[2]})

SurfSum == ScaledSum(wall.mv_surf_props_state, wall.m_ns_surf, SiteUnit)
TotalSites == Scaled(surf_props.nTotalSites, SiteUnit)
TotalTimesFracSum ==
    ScaledSum(TotalTimesFrac(surf_props), surf_props.nSiteCategories, SiteUnit)

FracUnit == Min({surf_props.fracSite[c][2] : c \in 1..surf_props.nSiteCategories})
FracSumIsOne ==
    ScaledSum(surf_props.fracSite, surf_props.nSiteCategories, FracUnit) = Pow2(-FracUnit)

\* C5 as stated: when the fractions sum to 1, the site densities of a freshly
\* constructed object sum exactly to the total site density.
C5_ExactConservation ==
    (pc = "ready" /\ FracSumIsOne) => SurfSum = TotalSites

\* C5 as amended: the site densities sum to nTotalSites times the sum of the
\* fractions (to nTotalSites when the fractions sum to 1) up to the rounding of
\* the product and the quotient behind each slot value: the relative error is
\* at most 3 * 2^-Prec.
C5_ConservationToRounding ==
    pc = "ready" =>
        /\ Abs(SurfSum - TotalTimesFracSum) * Pow2(Prec) <= 3 * Abs(TotalTimesFracSum)
        /\ FracSumIsOne => TotalTimesFracSum = TotalSites

C5_Witness ==
    /\ pc = "ready" /\ FracSumIsOne
    /\ surf_props.nSiteCategories = 2
    /\ SurfSum # TotalSites
    /\ Abs(SurfSum - TotalSites) * Pow2(Prec) <= 3 * TotalSites

\* C6: after construction category c owns the m[c] consecutive slots that
\* start after the slots of the categories before it, every one of them holds
\* nTotalSites * fracSite[c] / m[c], and the slots are exactly those of all
\* the categories.
C6_SlotsByCategory ==
    pc = "ready" =>
        /\ Len(wall.mv_surf_props_state) = SumInts(surf_props.nSpeciesinSite,
                                                   surf_props.nSiteCategories)
        /\ \A c \in 1..surf_props.nSiteCategories :
              LET first == SumInts(surf_props.nSpeciesinSite, c - 1)
                  dens == DivF(MulF(surf_props.nTotalSites, surf_props.fracSite[c]),
                               FromInt(surf_props.nSpeciesinSite[c]))
              IN  \A k \in 1..surf_props.nSpeciesinSite[c] :
                     wall.mv_surf_props_state[first + k] = dens

C6_Witness ==
    /\ pc = "ready"
    /\ surf_props.nSiteCategories = 2
    /\ surf_props.nSpeciesinSite = <<2, 3>>
    /\ surf_props.fracSite = <<Round(1, -2), Round(3, -2)>>
    /\ wall.mv_surf_props_state[1] = wall.mv_surf_props_state[2]
    /\ wall.mv_surf_props_state[2] # wall.mv_surf_props_state[3]
    /\ wall.mv_surf_props_state[3] = wall.mv_surf_props_state[5]

\* C7: the flag is false right after construction, at every moment it is true
\* exactly if some setWallState with id 0 or 1 has returned, and once true it
\* stays true.
C7_IsSetProtocol ==
    /\ [](pc = "ready" => (wall.m_is_wall_state_set <=> setCompleted))
    /\ [][(pc = "new" /\ pc' = "ready") => ~wall'.m_is_wall_state_set]_vars
    /\ [][wall.m_is_wall_state_set => wall'.m_is_wall_state_set]_vars

C7_Witness ==
    /\ wall.m_is_wall_state_set
    /\ IsGet(1) /\ call.after[1] = "setWallState" /\ call.after[2] = 0

\* C8: at every moment after construction the site densities are the ones the
\* site initialisation gives for the site model, slot for slot, and the three
\* vectors have the lengths nsSurf, ns and nT.
C8_SurfFixed ==
    pc = "ready" =>
        /\ Len(wall.mv_surf_props_state) = nWallSpecies(surf_props)
        /\ Len(wall.mv_rhoi) = thermo.nSpecies
        /\ Len(wall.mv_T) = thermo.nEnergyEqns
        /\ \A c \in 1..surf_props.nSiteCategories :
              \A k \in 1..surf_props.nSpeciesinSite[c] :
                 wall.mv_surf_props_state[SumInts(surf_props.nSpeciesinSite, c - 1) + k]
                    = SitesDens(surf_props, c)

C8_Witness ==
    /\ pc = "ready" /\ setCompleted
    /\ call.op = "getNdStateGasSurf"
    /\ thermo.nSpecies = 1 /\ thermo.nEnergyEqns = 2
    /\ surf_props.nSiteCategories = 2
    /\ wall.mv_surf_props_state[1] # wall.mv_surf_props_state[2]

\* C9: a setWallState that returns normally overwrites the temperatures with
\* p_energy; with id 0 it also sets the pressure to p_mass[0] and keeps the
\* densities, with id 1 it also sets the densities to p_mass and keeps the
\* pressure; the counts and the site densities are kept.
C9_SetEffect ==
    [][(call'.op = "setWallState" /\ call'.err = "none")
          => /\ call'.state_var \in {0, 1}
             /\ wall'.mv_T = call'.p_energy
             /\ (call'.state_var = 0)
                   => (wall'.m_p = call'.p_mass[1] /\ wall'.mv_rhoi = wall.mv_rhoi)
             /\ (call'.state_var = 1)
                   => (wall'.mv_rhoi = call'.p_mass /\ wall'.m_p = wall.m_p)
             /\ wall'.mv_surf_props_state = wall.mv_surf_props_state
             /\ <<wall'.m_ns, wall'.m_nT, wall'.m_ns_surf>>
                   = <<wall.m_ns, wall.m_nT, wall.m_ns_surf>>]_vars

C9_Witness ==
    /\ IsSet(0) /\ call.err = "none"
    /\ wall.m_ns = 2 /\ wall.m_nT = 2
    /\ wall.mv_rhoi = <<FromInt(1), FromInt(0)>>
    /\ wall.mv_T = <<FromInt(0), FromInt(1)>>
    /\ wall.m_p = FromInt(1)

\* C10 as stated: before any setWallState has returned, every density and
\* every temperature of a constructed object is 0.
C10_ZeroInitialised ==
    (pc = "ready" /\ ~setCompleted)
        => /\ \A i \in 1..wall.m_ns : wall.mv_rhoi[i] = FromInt(0)
           /\ \A i \in 1..wall.m_nT : wall.mv_T[i] = FromInt(0)

====
